---- MODULE Spec2Model ----
(***************************************************************************)
(* MetalRetriever (langchain/retrievers/metal.py): a retriever that hands  *)
(* a text query to a Metal client's search() and turns each returned       *)
(* record into a Document(page_content, metadata).                         *)
(*                                                                         *)
(* Python mappings are TLA+ functions from key strings to value strings;   *)
(* mutable dict objects live in `heap` and are named by a reference, so    *)
(* that aliasing between the caller's dict and self.params is visible.     *)
(* The Metal client is external: each search() call either raises one of   *)
(* ClientErrors or returns one of Responses, chosen nondeterministically.  *)
(***************************************************************************)
EXTENDS Naturals, Sequences, FiniteSets

\* ---------------------------------------------------------------- bounds
NumCallers == 2          \* threads calling into the one retriever
MaxData == 2             \* longest results["data"] the client returns

Callers == 1..NumCallers

\* ------------------------------------------------------------ value sets
EmptyDict == [k \in {} |-> ""]

\* d with d[k] = v set (dict item assignment)
DictSet(d, k, v) == [j \in DOMAIN d \cup {k} |-> IF j = k THEN v ELSE d[j]]

\* Objects a caller may pass as `client`, by identity.
ClientObjects == {"metal_client", "metal_subclass_client", "str_object", "mock_object"}

\* type(client) of each object
TypeOf(c) ==
    CASE c = "metal_client"          -> "metal_sdk.metal.Metal"
      [] c = "metal_subclass_client" -> "app.MyMetal"
      [] c = "str_object"            -> "str"
      [] c = "mock_object"           -> "unittest.mock.MagicMock"

\* The classes of a type's method resolution order.
Mro(ty) ==
    CASE ty = "metal_sdk.metal.Metal"   -> {"metal_sdk.metal.Metal", "object"}
      [] ty = "app.MyMetal"             -> {"app.MyMetal", "metal_sdk.metal.Metal", "object"}
      [] ty = "str"                     -> {"str", "object"}
      [] ty = "unittest.mock.MagicMock" -> {"unittest.mock.MagicMock", "object"}

\* The `params` argument: None, or a dict with its contents at call time.
ParamArgs ==
    { [isNone |-> TRUE,  value |-> EmptyDict],
      [isNone |-> FALSE, value |-> EmptyDict],
      [isNone |-> FALSE, value |-> [limit |-> "1"]],
      [isNone |-> FALSE, value |-> [text |-> "p", limit |-> "1"]] }

Queries == {"", "q"}

\* **kwargs given to a retrieval call
CallKwargs == {EmptyDict, [limit |-> "9"]}

\* Records the client may return; the last one has no "text" key.
Records ==
    { [text |-> "a", score |-> "0.9", id |-> "7"],
      [text |-> "b"],
      [text |-> "", score |-> "0.5"],
      [score |-> "0.5"] }

RECURSIVE SeqsUpTo(_, _)
SeqsUpTo(S, n) ==
    IF n = 0 THEN { <<>> }
    ELSE LET shorter == SeqsUpTo(S, n - 1)
         IN  shorter \cup { Append(s, x) : s \in { u \in shorter : Len(u) = n - 1 }, x \in S }

\* What search() may return: a mapping with "data", or one without it.
NoData == [hasData |-> FALSE, data |-> <<>>]
Responses ==
    { [hasData |-> TRUE, data |-> s] : s \in SeqsUpTo(Records, MaxData) } \cup {NoData}

\* Exceptions the client's search() may raise.
ClientErrors == {"ConnectionError", "PermissionError"}

\* The thread of the single-threaded specification.
MainCaller == { t \in Callers : \A u \in Callers : t <= u }

\* Values the caller assigns to params["limit"] after construction.
ItemValues == {"1", "2"}

\* Inputs of the concurrent specification.
ConcParamArgs == { [isNone |-> FALSE, value |-> [limit |-> "1"]] }
QueryTexts == <<"q1", "q2", "q3", "q4">>
ConcQueryOf(t) == QueryTexts[((t - 1) % Len(QueryTexts)) + 1]
ConcRecords == { [text |-> "a", score |-> "0.9", id |-> "7"], [text |-> "b"] }
ConcResponses == { [hasData |-> TRUE, data |-> s] : s \in SeqsUpTo(ConcRecords, MaxData) }

Refs == {"caller", "fresh"}

NoOutcome == [kind |-> "none"]
NoAnswer == [kind |-> "none"]

\* ----------------------------------------------------------------- state
VARIABLES
    heap,          \* dict objects: "caller" = the dict passed as params,
                   \*               "fresh"  = the {} literal made in __init__
    callerHasDict, \* the caller passed a dict (not None) and still holds it
    self_client,   \* self.client, "unset" while no adapter exists
    self_params,   \* self.params: a reference into heap, "unset" as above
    ctorArgs,      \* arguments of the latest __init__ call, by value
    ctorOutcome,   \* how the latest __init__ call ended
    op,            \* per caller: "none", or the method running or last run:
                   \*   "sync" = _get_relevant_documents, "async" = _aget_...
    pc,            \* per caller: "idle", "search", "loop", "done"
    query,         \* per caller: the query argument of the running call
    kwargs,        \* per caller: the **kwargs of the running call
    results,       \* per caller: local `results`
    idx,           \* per caller: position of the for loop in results["data"]
    final_results, \* per caller: local `final_results`
    outcome,       \* per caller: what the latest call returned or raised
    calls,         \* per caller: search() calls the client saw in that call
    answer         \* per caller: how the client answered its latest search()
                   \*   call, as the client gave it (raised, or returned a value)

vars == <<heap, callerHasDict, self_client, self_params, ctorArgs, ctorOutcome,
          op, pc, query, kwargs, results, idx, final_results, outcome, calls,
          answer>>

adapterVars == <<heap, callerHasDict, self_client, self_params, ctorArgs, ctorOutcome>>
callerVars == <<op, pc, query, kwargs, results, idx, final_results, outcome, calls, answer>>

Constructed == self_client # "unset"

\* No caller has called a method yet.
CallersIdle ==
    /\ op = [t \in Callers |-> "none"]
    /\ pc = [t \in Callers |-> "idle"]
    /\ query = [t \in Callers |-> ""]
    /\ kwargs = [t \in Callers |-> EmptyDict]
    /\ results = [t \in Callers |-> NoData]
    /\ idx = [t \in Callers |-> 1]
    /\ final_results = [t \in Callers |-> <<>>]
    /\ outcome = [t \in Callers |-> NoOutcome]
    /\ calls = [t \in Callers |-> <<>>]
    /\ answer = [t \in Callers |-> NoAnswer]

Init ==
    /\ heap = [r \in Refs |-> EmptyDict]
    /\ callerHasDict = FALSE
    /\ self_client = "unset"
    /\ self_params = "unset"
    /\ ctorArgs = [client |-> "unset", params |-> [isNone |-> TRUE, value |-> EmptyDict]]
    /\ ctorOutcome = NoOutcome
    /\ CallersIdle

\* The shape of the state.
TypeOK ==
    /\ DOMAIN heap = Refs
    /\ callerHasDict \in BOOLEAN
    /\ self_client \in ClientObjects \cup {"unset"}
    /\ self_params \in Refs \cup {"unset"}
    /\ ctorArgs.client \in ClientObjects \cup {"unset"}
    /\ ctorArgs.params \in ParamArgs
    /\ ctorOutcome.kind \in {"none", "ok", "raise"}
    /\ \A t \in Callers :
          /\ op[t] \in {"none", "sync", "async"}
          /\ pc[t] \in {"idle", "search", "loop", "done"}
          /\ query[t] \in Queries \cup {ConcQueryOf(u) : u \in Callers}
          /\ kwargs[t] \in CallKwargs
          /\ results[t] \in Responses
          /\ idx[t] \in 1..(Len(results[t].data) + 1)
          /\ Len(final_results[t]) < idx[t]
          /\ outcome[t].kind \in {"none", "return", "raise"}
          /\ Len(calls[t]) <= 1
          /\ answer[t].kind \in {"none", "return", "raise"}

\* ------------------------------------------------------------- __init__
\* Variant: type(client) is Metal, which rejects instances of subclasses.
IsExactlyMetal(c) == TypeOf(c) = "metal_sdk.metal.Metal"

\* isinstance(client, Metal)
IsInstanceOfMetal(c) == "metal_sdk.metal.Metal" \in Mro(TypeOf(c))

\* The ValueError message, as its three parts (two literals, then type(client)).
UnexpectedClientMessage(c) ==
    << "Got unexpected client, should be of type metal_sdk.metal.Metal. ",
       "Instead, got ",
       <<"<class '", TypeOf(c), "'>">> >>

\* `params or {}`: None and the empty dict are falsy, so both give a new {}.
ParamsOrEmpty(p) ==
    IF p.isNone \/ DOMAIN p.value = {} THEN "fresh" ELSE "caller"

MetalRetriever_init(c, p) ==
    /\ ~Constructed
    /\ ctorArgs' = [client |-> c, params |-> p]
    /\ IF ~IsInstanceOfMetal(c)
       THEN /\ ctorOutcome' = [kind |-> "raise", exc |-> "ValueError",
                               message |-> UnexpectedClientMessage(c)]
            /\ UNCHANGED <<heap, callerHasDict, self_client, self_params>>
       ELSE /\ ctorOutcome' = [kind |-> "ok"]
            /\ self_client' = c
            /\ self_params' = ParamsOrEmpty(p)
            /\ heap' = [caller |-> p.value, fresh |-> EmptyDict]
            /\ callerHasDict' = ~p.isNone
    /\ UNCHANGED callerVars

\* The caller, after construction, assigns into the dict it passed in.
caller_sets_item(k, v) ==
    /\ Constructed
    /\ callerHasDict
    /\ heap' = [heap EXCEPT !["caller"] = DictSet(@, k, v)]
    /\ UNCHANGED <<callerHasDict, self_client, self_params, ctorArgs, ctorOutcome>>
    /\ UNCHANGED callerVars

\* ------------------------------------------- _get_relevant_documents
\* The positional argument of search(): {"text": query}
SearchPayload(q) == [text |-> q]

\* Variant: search({"text": query}), the stored parameters left out.
SearchKwargsDropped(h, ref) == EmptyDict

\* **self.params: every item of the dict self.params refers to, as it is now
SearchKwargs(h, ref) == [k \in DOMAIN h[ref] |-> h[ref][k]]

\* Variant: search({"text": query, **self.params}, **kwargs), the stored
\* parameters merged into the query mapping and the call's kwargs forwarded.
SearchCallMerged(q, kw) ==
    [client |-> self_client,
     payload |-> [k \in {"text"} \cup DOMAIN heap[self_params] |->
                    IF k \in DOMAIN heap[self_params] THEN heap[self_params][k] ELSE q],
     kwargs |-> kw]

\* self.client.search({"text": query}, **self.params), as the client sees it;
\* kw, the **kwargs of the retrieval call, is not used.
SearchCall(q, kw) ==
    [client |-> self_client, payload |-> SearchPayload(q),
     kwargs |-> SearchKwargs(heap, self_params)]

\* Variant: r.get(k, ""), a default in place of the KeyError.
GetItemOrDefault(r, k) ==
    IF k \in DOMAIN r THEN [found |-> TRUE, value |-> r[k]]
                      ELSE [found |-> TRUE, value |-> ""]

\* r[k]: the value, or a KeyError when r has no key k
GetItem(r, k) ==
    IF k \in DOMAIN r THEN [found |-> TRUE, value |-> r[k]]
                      ELSE [found |-> FALSE, value |-> ""]

\* Variant: metadata = dict(r), the "text" item kept.
MetadataWithText(r) == [k \in DOMAIN r |-> r[k]]

\* metadata = {k: v for k, v in r.items() if k != "text"}
Metadata(r) == [k \in DOMAIN r \ {"text"} |-> r[k]]

\* Document(page_content=..., metadata=...)
Document(text, metadata) == [page_content |-> text, metadata |-> metadata]

Raise(e) == [kind |-> "raise", exc |-> e]
KeyError(k) == [kind |-> "raise", exc |-> "KeyError", key |-> k]
Return(v) == [kind |-> "return", value |-> v]

\* Entry: bind the arguments, evaluate the arguments of search() and call it.
get_relevant_documents(t, q, kw) ==
    /\ Constructed
    /\ pc[t] \in {"idle", "done"}
    /\ op' = [op EXCEPT ![t] = "sync"]
    /\ pc' = [pc EXCEPT ![t] = "search"]
    /\ query' = [query EXCEPT ![t] = q]
    /\ kwargs' = [kwargs EXCEPT ![t] = kw]
    /\ calls' = [calls EXCEPT ![t] = <<SearchCall(q, kw)>>]
    /\ results' = [results EXCEPT ![t] = NoData]
    /\ idx' = [idx EXCEPT ![t] = 1]
    /\ final_results' = [final_results EXCEPT ![t] = <<>>]
    /\ outcome' = [outcome EXCEPT ![t] = NoOutcome]
    /\ UNCHANGED answer
    /\ UNCHANGED adapterVars

\* search() returns resp; results = resp; final_results = []; the for
\* statement evaluates results["data"], a KeyError when the key is absent.
client_search_returns(t, resp) ==
    /\ pc[t] = "search"
    /\ answer' = [answer EXCEPT ![t] = [kind |-> "return", response |-> resp]]
    /\ results' = [results EXCEPT ![t] = resp]
    /\ final_results' = [final_results EXCEPT ![t] = <<>>]
    /\ idx' = [idx EXCEPT ![t] = 1]
    /\ IF resp.hasData
       THEN /\ pc' = [pc EXCEPT ![t] = "loop"]
            /\ UNCHANGED outcome
       ELSE /\ pc' = [pc EXCEPT ![t] = "done"]
            /\ outcome' = [outcome EXCEPT ![t] = KeyError("data")]
    /\ UNCHANGED <<op, query, kwargs, calls>>
    /\ UNCHANGED adapterVars

\* Variant: try/except around search() that returns no documents.
client_search_raises_swallowed(t, e) ==
    /\ pc[t] = "search"
    /\ answer' = [answer EXCEPT ![t] = [kind |-> "raise", exc |-> e]]
    /\ pc' = [pc EXCEPT ![t] = "done"]
    /\ outcome' = [outcome EXCEPT ![t] = Return(<<>>)]
    /\ UNCHANGED <<op, query, kwargs, calls, results, idx, final_results>>
    /\ UNCHANGED adapterVars

\* search() raises e: nothing in the method catches it.
client_search_raises(t, e) ==
    /\ pc[t] = "search"
    /\ answer' = [answer EXCEPT ![t] = [kind |-> "raise", exc |-> e]]
    /\ pc' = [pc EXCEPT ![t] = "done"]
    /\ outcome' = [outcome EXCEPT ![t] = Raise(e)]
    /\ UNCHANGED <<op, query, kwargs, calls, results, idx, final_results>>
    /\ UNCHANGED adapterVars

\* Variant: final_results.insert(0, ...), the documents in reverse order.
for_r_in_results_prepends(t) ==
    /\ pc[t] = "loop"
    /\ idx[t] <= Len(results[t].data)
    /\ LET r == results[t].data[idx[t]]
           metadata == Metadata(r)
           text == GetItem(r, "text")
       IN  IF text.found
           THEN /\ final_results' = [final_results EXCEPT
                                       ![t] = <<Document(text.value, metadata)>> \o @]
                /\ idx' = [idx EXCEPT ![t] = @ + 1]
                /\ UNCHANGED <<pc, outcome>>
           ELSE /\ pc' = [pc EXCEPT ![t] = "done"]
                /\ outcome' = [outcome EXCEPT ![t] = KeyError("text")]
                /\ UNCHANGED <<final_results, idx>>
    /\ UNCHANGED <<op, query, kwargs, calls, results, answer>>
    /\ UNCHANGED adapterVars

\* Variant: page_content=r.pop("text"), metadata=r: the client's record loses
\* its "text" item.
for_r_in_results_pops(t) ==
    /\ pc[t] = "loop"
    /\ idx[t] <= Len(results[t].data)
    /\ LET r == results[t].data[idx[t]]
           metadata == Metadata(r)
           text == GetItem(r, "text")
       IN  IF text.found
           THEN /\ final_results' = [final_results EXCEPT
                                       ![t] = Append(@, Document(text.value, metadata))]
                /\ idx' = [idx EXCEPT ![t] = @ + 1]
                /\ results' = [results EXCEPT ![t].data[idx[t]] = metadata]
                /\ UNCHANGED <<pc, outcome>>
           ELSE /\ pc' = [pc EXCEPT ![t] = "done"]
                /\ outcome' = [outcome EXCEPT ![t] = KeyError("text")]
                /\ UNCHANGED <<final_results, idx, results>>
    /\ UNCHANGED <<op, query, kwargs, calls, answer>>
    /\ UNCHANGED adapterVars

\* One iteration of `for r in results["data"]`.
for_r_in_results(t) ==
    /\ pc[t] = "loop"
    /\ idx[t] <= Len(results[t].data)
    /\ LET r == results[t].data[idx[t]]
           metadata == Metadata(r)
           text == GetItem(r, "text")
       IN  IF text.found
           THEN /\ final_results' = [final_results EXCEPT
                                       ![t] = Append(@, Document(text.value, metadata))]
                /\ idx' = [idx EXCEPT ![t] = @ + 1]
                /\ UNCHANGED <<pc, outcome>>
           ELSE /\ pc' = [pc EXCEPT ![t] = "done"]
                /\ outcome' = [outcome EXCEPT ![t] = KeyError("text")]
                /\ UNCHANGED <<final_results, idx>>
    /\ UNCHANGED <<op, query, kwargs, calls, results, answer>>
    /\ UNCHANGED adapterVars

\* The loop is exhausted: return final_results.
return_final_results(t) ==
    /\ pc[t] = "loop"
    /\ idx[t] > Len(results[t].data)
    /\ pc' = [pc EXCEPT ![t] = "done"]
    /\ outcome' = [outcome EXCEPT ![t] = Return(final_results[t])]
    /\ UNCHANGED <<op, query, kwargs, calls, results, answer, idx, final_results>>
    /\ UNCHANGED adapterVars

\* ------------------------------------------ _aget_relevant_documents
\* Variant: the coroutine runs the synchronous search.
aget_relevant_documents_searches(t, q, kw) ==
    /\ Constructed
    /\ pc[t] \in {"idle", "done"}
    /\ op' = [op EXCEPT ![t] = "async"]
    /\ pc' = [pc EXCEPT ![t] = "search"]
    /\ query' = [query EXCEPT ![t] = q]
    /\ kwargs' = [kwargs EXCEPT ![t] = kw]
    /\ calls' = [calls EXCEPT ![t] = <<SearchCall(q, kw)>>]
    /\ results' = [results EXCEPT ![t] = NoData]
    /\ idx' = [idx EXCEPT ![t] = 1]
    /\ final_results' = [final_results EXCEPT ![t] = <<>>]
    /\ outcome' = [outcome EXCEPT ![t] = NoOutcome]
    /\ UNCHANGED answer
    /\ UNCHANGED adapterVars

\* Awaiting the coroutine runs its body: raise NotImplementedError.
aget_relevant_documents(t, q, kw) ==
    /\ Constructed
    /\ pc[t] \in {"idle", "done"}
    /\ op' = [op EXCEPT ![t] = "async"]
    /\ pc' = [pc EXCEPT ![t] = "done"]
    /\ query' = [query EXCEPT ![t] = q]
    /\ kwargs' = [kwargs EXCEPT ![t] = kw]
    /\ calls' = [calls EXCEPT ![t] = <<>>]
    /\ results' = [results EXCEPT ![t] = NoData]
    /\ idx' = [idx EXCEPT ![t] = 1]
    /\ final_results' = [final_results EXCEPT ![t] = <<>>]
    /\ outcome' = [outcome EXCEPT ![t] = Raise("NotImplementedError")]
    /\ UNCHANGED answer
    /\ UNCHANGED adapterVars

\* ------------------------------------------------------- specification
\* Spec: the whole life of one retriever used from one thread: construction
\* with any client and params, the caller changing its dict, retrievals.
Construct == \E c \in ClientObjects, p \in ParamArgs : MetalRetriever_init(c, p)
CallerSetsItem == \E v \in ItemValues : caller_sets_item("limit", v)
Retrieve == \E t \in MainCaller, q \in Queries, kw \in CallKwargs : get_relevant_documents(t, q, kw)
SearchReturns == \E t \in MainCaller, resp \in Responses : client_search_returns(t, resp)
SearchRaises == \E t \in MainCaller, e \in ClientErrors : client_search_raises(t, e)
LoopStep == \E t \in MainCaller : for_r_in_results(t)
ReturnStep == \E t \in MainCaller : return_final_results(t)
ARetrieve == \E t \in MainCaller, q \in Queries, kw \in CallKwargs : aget_relevant_documents(t, q, kw)

Next ==
    \/ Construct
    \/ CallerSetsItem
    \/ Retrieve
    \/ SearchReturns
    \/ SearchRaises
    \/ LoopStep
    \/ ReturnStep
    \/ ARetrieve

Spec == Init /\ [][Next]_vars

\* SpecConc: one retriever, already constructed, used by all Callers at once.
\* Each step of a retrieval is one step of the interleaving; the client is
\* safe for concurrent use, so each search() call is answered on its own.
InitConc ==
    /\ \E p \in ConcParamArgs :
          /\ ctorArgs = [client |-> "metal_client", params |-> p]
          /\ self_params = ParamsOrEmpty(p)
          /\ heap = [caller |-> p.value, fresh |-> EmptyDict]
          /\ callerHasDict = ~p.isNone
    /\ self_client = "metal_client"
    /\ ctorOutcome = [kind |-> "ok"]
    /\ CallersIdle

ConcRetrieve == \E t \in Callers : get_relevant_documents(t, ConcQueryOf(t), EmptyDict)
ConcSearchReturns == \E t \in Callers, resp \in ConcResponses : client_search_returns(t, resp)
ConcSearchRaises == \E t \in Callers : client_search_raises(t, "ConnectionError")
ConcLoopStep == \E t \in Callers : for_r_in_results(t)
ConcReturnStep == \E t \in Callers : return_final_results(t)

NextConc ==
    \/ ConcRetrieve
    \/ ConcSearchReturns
    \/ ConcSearchRaises
    \/ ConcLoopStep
    \/ ConcReturnStep

SpecConc == InitConc /\ [][NextConc]_vars

\* ------------------------------------------------------------- properties
\* The documents a sequence of records stands for: one per record, in order,
\* the content its "text" value, the metadata its other items.
DocumentOf(rec) ==
    [page_content |-> rec["text"],
     metadata |-> [k \in DOMAIN rec \ {"text"} |-> rec[k]]]
DocumentsOf(data) == [i \in 1..Len(data) |-> DocumentOf(data[i])]

HasText(data) == \A i \in 1..Len(data) : "text" \in DOMAIN data[i]

\* Caller t has finished a synchronous retrieval whose search() returned a
\* mapping with "data".
GotData(t) ==
    /\ op[t] = "sync"
    /\ pc[t] = "done"
    /\ answer[t].kind = "return"
    /\ answer[t].response.hasData

\* The step is caller t entering _get_relevant_documents and calling search().
EntersSearch(t) == pc[t] # "search" /\ pc'[t] = "search"

\* C1: when search() returns a mapping whose "data" holds n records that all
\* have "text", the retrieval returns exactly n documents, the i-th with the
\* i-th record's "text" as content and all its other items, unchanged and
\* without "text", as metadata; for n = 0 it returns the empty sequence.
C1_DocumentsMatchRecords ==
    \A t \in Callers :
        (GotData(t) /\ HasText(answer[t].response.data)) =>
            LET data == answer[t].response.data
                docs == outcome[t].value
            IN  /\ outcome[t].kind = "return"
                /\ Len(docs) = Len(data)
                /\ Len(data) = 0 => docs = <<>>
                /\ \A i \in 1..Len(data) :
                      /\ docs[i].page_content = data[i]["text"]
                      /\ DOMAIN docs[i].metadata = DOMAIN data[i] \ {"text"}
                      /\ "text" \notin DOMAIN docs[i].metadata
                      /\ \A k \in DOMAIN docs[i].metadata : docs[i].metadata[k] = data[i][k]

\* Two different records came back and two documents were returned in order.
C1_Witness ==
    \E t \in Callers :
        /\ GotData(t)
        /\ Len(answer[t].response.data) = 2
        /\ outcome[t].kind = "return"
        /\ Len(outcome[t].value) = 2
        /\ outcome[t].value[1].page_content = "a"
        /\ DOMAIN outcome[t].value[1].metadata = {"score", "id"}
        /\ outcome[t].value[2] = [page_content |-> "b", metadata |-> EmptyDict]

\* The client objects that are instances of metal_sdk.metal.Metal.
MetalInstances == {"metal_client", "metal_subclass_client"}

\* C2: constructing with a client that is no instance of Metal fails at once
\* with a ValueError whose message names type(client), and nothing is stored
\* (no self.client, no self.params); constructing with an instance succeeds.
C2_ConstructionValidatesClient ==
    /\ ctorOutcome.kind = "none" => ~Constructed
    /\ ctorOutcome.kind = "raise" =>
          /\ ctorArgs.client \notin MetalInstances
          /\ ctorOutcome.exc = "ValueError"
          /\ LET m == ctorOutcome.message
             IN  m[Len(m)] = <<"<class '", TypeOf(ctorArgs.client), "'>">>
          /\ self_client = "unset"
          /\ self_params = "unset"
    /\ ctorOutcome.kind = "ok" =>
          /\ ctorArgs.client \in MetalInstances
          /\ self_client = ctorArgs.client
          /\ self_params \in Refs
    /\ ctorArgs.client \in MetalInstances => ctorOutcome.kind = "ok"

\* A mock was passed as the client and the construction failed.
C2_Witness ==
    /\ ctorArgs.client = "mock_object"
    /\ ctorOutcome.kind = "raise"
    /\ ~Constructed

C4_SearchErrorPropagates ==
    \A t \in Callers :
        (op[t] = "sync" /\ pc[t] = "done" /\ answer[t].kind = "raise") =>
            /\ outcome[t] = [kind |-> "raise", exc |-> answer[t].exc]
            /\ outcome[t].kind # "return"
            /\ Len(calls[t]) = 1

\* search() raised ConnectionError and the retrieval raised it too.
C4_Witness ==
    \E t \in Callers :
        /\ op[t] = "sync"
        /\ pc[t] = "done"
        /\ answer[t] = [kind |-> "raise", exc |-> "ConnectionError"]
        /\ outcome[t] = [kind |-> "raise", exc |-> "ConnectionError"]

\* C5: the asynchronous retrieval always raises NotImplementedError, for every
\* query, every retriever and every extra keyword argument, and never calls
\* search().
C5_AsyncNotImplemented ==
    \A t \in Callers :
        op[t] = "async" =>
            /\ pc[t] = "done"
            /\ outcome[t] = [kind |-> "raise", exc |-> "NotImplementedError"]
            /\ calls[t] = <<>>

\* The asynchronous retrieval was called with the empty query and an extra
\* keyword argument on a retriever that holds parameters.
C5_Witness ==
    \E t \in Callers :
        /\ op[t] = "async"
        /\ query[t] = ""
        /\ kwargs[t] # EmptyDict
        /\ heap[self_params] # EmptyDict
        /\ outcome[t].kind = "raise"

\* C6: when a returned record has no "text", the retrieval raises
\* KeyError("text"): no default content, and no documents returned, not even
\* for the records before that one.
C6_MissingTextRaises ==
    \A t \in Callers :
        (GotData(t) /\ ~HasText(answer[t].response.data)) =>
            /\ outcome[t] = [kind |-> "raise", exc |-> "KeyError", key |-> "text"]
            /\ outcome[t].kind # "return"

\* The second of two records had no "text"; the first had been converted.
C6_Witness ==
    \E t \in Callers :
        /\ GotData(t)
        /\ Len(answer[t].response.data) = 2
        /\ "text" \in DOMAIN answer[t].response.data[1]
        /\ "text" \notin DOMAIN answer[t].response.data[2]
        /\ Len(final_results[t]) = 1
        /\ outcome[t].kind = "raise"

\* C7 (as claimed): the parameters are copied at construction, so every search
\* call carries the parameters as they were given to the constructor, whatever
\* the caller does to its dict afterwards.
C7_ParamsCopiedAtConstruction ==
    \A t \in Callers :
        (op[t] = "sync" /\ calls[t] # <<>>) =>
            calls[t][1].kwargs = ctorArgs.params.value

\* C8: under every interleaving of retrievals on one retriever, each call sends
\* its own query text, converts the records of the response to its own search
\* call only, and returns exactly the documents of that response, in order.
C8_ConcurrentCallsIsolated ==
    \A t \in Callers :
        /\ (op[t] = "sync" /\ pc[t] # "idle") =>
              /\ Len(calls[t]) = 1
              /\ calls[t][1].payload = [text |-> query[t]]
        /\ (op[t] = "sync" /\ pc[t] = "loop") =>
              /\ answer[t].kind = "return"
              /\ idx[t] \in 1..(Len(answer[t].response.data) + 1)
              /\ final_results[t] = DocumentsOf(SubSeq(answer[t].response.data, 1, idx[t] - 1))
        /\ GotData(t) =>
              outcome[t] = [kind |-> "return", value |-> DocumentsOf(answer[t].response.data)]

\* One caller has returned the two documents of its response while another,
\* answered with a different response, is in the middle of its loop.
C8_Witness ==
    \E t \in Callers, u \in Callers :
        /\ t # u
        /\ GotData(t)
        /\ Len(outcome[t].value) = 2
        /\ outcome[t].value[1] # outcome[t].value[2]
        /\ pc[u] = "loop"
        /\ idx[u] = 2
        /\ answer[u].response # answer[t].response
        /\ query[u] # query[t]

\* C9: a synchronous retrieval, ending either way, calls search() exactly once
\* and changes neither self.client, nor self.params and the dict it refers to,
\* nor the records the client returned; nor does the asynchronous retrieval.
C9_RetrievalChangesNothing ==
    /\ [](\A t \in Callers :
            /\ (op[t] = "sync" /\ pc[t] # "idle") => Len(calls[t]) = 1
            /\ (op[t] = "sync" /\ pc[t] \in {"loop", "done"} /\ answer[t].kind = "return") =>
                  results[t] = answer[t].response)
    /\ [][ callerVars' # callerVars => UNCHANGED <<self_client, self_params, heap>> ]_vars

\* A retrieval failed on a record without "text" after converting one record,
\* on a retriever that holds parameters.
C9_Witness ==
    \E t \in Callers :
        /\ GotData(t)
        /\ outcome[t].kind = "raise"
        /\ Len(final_results[t]) = 1
        /\ Len(calls[t]) = 1
        /\ heap[self_params] # EmptyDict
        /\ results[t] = answer[t].response

\* C10: the query mapping given to search() is exactly {"text": query} for the
\* query of the call, also when the stored parameters have a "text" key; the
\* stored parameters are the keyword arguments, and the keyword arguments of
\* the retrieval call are not passed on.
C10_QueryMappingIsTextOnly ==
    [][ \A t \in Callers :
          EntersSearch(t) =>
              LET c == calls'[t][Len(calls'[t])]
              IN  /\ DOMAIN c.payload = {"text"}
                  /\ c.payload = [text |-> query'[t]]
                  /\ c.kwargs = heap[self_params]
      ]_vars

\* search() was called for query "q" with the stored "text" parameter as a
\* keyword argument, the retrieval call itself having been given limit="9".
C10_Witness ==
    \E t \in Callers :
        /\ op[t] = "sync"
        /\ pc[t] = "search"
        /\ kwargs[t] = [limit |-> "9"]
        /\ calls[t][1].payload = [text |-> "q"]
        /\ calls[t][1].kwargs = [text |-> "p", limit |-> "1"]
====
